---- MODULE Spec2Model ----
(***************************************************************************)
(* The ShareDB storage adapter of teable (SqliteDbAdapter): the commit     *)
(* coordinator, the mutation appliers, the snapshot reconstructors and the *)
(* live-query predicate, over a transactional store.                       *)
(*                                                                         *)
(* Strings that the code slices (document ids) are sequences of            *)
(* one-character strings; strings that are only compared are TLA+ strings. *)
(* A JS value that may be undefined is a sequence of length 0 or 1.        *)
(***************************************************************************)
EXTENDS Integers, Sequences, FiniteSets, TLC

VARIABLES db, tx, pc, call, res, ret, closed

vars == <<db, tx, pc, call, res, ret, closed>>

(* ------------------------------ bounds -------------------------------- *)

\* declared versions (snapshot.v) range over 1..MaxVersion
MaxVersion == 2

\* concurrent commit calls
NumProcs == 2

\* length of the id lists handed to getSnapshotBulk
MaxIds == 2

\* declared versions of the commits of the single caller
MaxSoloVersion == 3

Procs == 1..NumProcs

(* --------------------------- JS primitives ---------------------------- *)

Undefined == <<>>

Some(x) == <<x>>

\* JS truthiness of an optional object or array: only undefined is falsy
\* (an empty array [] is truthy)
Truthy(opt) == opt # Undefined

\* String.prototype.slice(0, 3)
Slice3(s) == SubSeq(s, 1, IF Len(s) < 3 THEN Len(s) ELSE 3)

\* Array.prototype.indexOf: first index (0-based), -1 when absent
IndexOf(seq, x) ==
  IF \E i \in 1..Len(seq) : seq[i] = x
  THEN (CHOOSE i \in 1..Len(seq) : seq[i] = x /\ \A j \in 1..(i-1) : seq[j] # x) - 1
  ELSE -1

\* JSON.stringify / JSON.parse of a stored blob: the text is kept as a
\* tagged value, so that a stored text is never used as an object unparsed
JsonStringify(obj) == [json |-> obj]

JsonParse(text) == text.json

(* ------------------------- identifiers, families ---------------------- *)

\* IdPrefix of @teable-group/core: the three-character family prefixes
IdPrefixTable == <<"t", "b", "l">>

IdPrefixRecord == <<"r", "e", "c">>

IdPrefixField == <<"f", "l", "d">>

IdPrefixView == <<"v", "i", "w">>

IdPrefixAggregate == <<"R", "o", "w">>

\* AggregateKey of @teable-group/core
AggregateKeyRowCount == <<"R", "o", "w", "C", "o", "u", "n", "t">>

AggregateKeyAverage == <<"A", "v", "e", "r", "a", "g", "e">>

\* the one collection (table id) of the model
Coll == "tbl1"

Fld1 == IdPrefixField \o <<"1">>

Fld2 == IdPrefixField \o <<"2">>

Viw1 == IdPrefixView \o <<"1">>

Rec1 == IdPrefixRecord \o <<"1">>

Tbl1 == IdPrefixTable \o <<"1">>

\* an id of no known family, and the empty string
Xyz1 == <<"x", "y", "z", "1">>

EmptyId == <<>>

RowCountV1 == AggregateKeyRowCount \o <<"_">> \o Viw1

AverageV1 == AggregateKeyAverage \o <<"_">> \o Viw1

\* an id with the aggregate prefix and a key that is not an AggregateKey
RowsV1 == <<"R", "o", "w", "s", "_">> \o Viw1

(* ------------------------------ operations ---------------------------- *)

\* OpName of @teable-group/core
OpNameSetRecordOrder == "setRecordOrder"

OpNameSetRecord == "setRecord"

OpNameSetColumnMeta == "setColumnMeta"

OpNameAddColumnMeta == "addColumnMeta"

OpNameSetFieldName == "setFieldName"

\* a ShareDB raw op: CreateOp {create: {data}}, DeleteOp {del: true},
\* EditOp {op: [...]}; a member the op does not carry is undefined
CreateOp(data) == [create |-> Some(data), del |-> FALSE, op |-> Undefined]

DeleteOp == [create |-> Undefined, del |-> TRUE, op |-> Undefined]

EditOp(ops) == [create |-> Undefined, del |-> FALSE, op |-> Some(ops)]

\* an edit op that carries no op member at all
NoOp == [create |-> Undefined, del |-> FALSE, op |-> Undefined]

\* the mutation descriptors (op contexts) of an edit
SetColumnMetaCtx(viewId, metaKey, newMetaValue) ==
  [name |-> OpNameSetColumnMeta, viewId |-> viewId, metaKey |-> metaKey,
   newMetaValue |-> newMetaValue]

AddColumnMetaCtx(viewId, newMetaValue) ==
  [name |-> OpNameAddColumnMeta, viewId |-> viewId, newMetaValue |-> newMetaValue]

SetFieldNameCtx(newName) == [name |-> OpNameSetFieldName, newName |-> newName]

SetRecordCtx(fieldId, newValue) ==
  [name |-> OpNameSetRecord, fieldId |-> fieldId, newValue |-> newValue]

SetRecordOrderCtx(viewId, newOrder) ==
  [name |-> OpNameSetRecordOrder, viewId |-> viewId, newOrder |-> newOrder]

\* a descriptor of a kind that has no applier
OtherCtx == [name |-> "setViewName"]

\* OpBuilder.ops2Contexts: one context per op of the edit, in the op's order
Ops2Contexts(ops) == ops


(* ------------------------------- storage ------------------------------ *)

\* A store state: the operation log (a set of rows) and the document
\* tables, each a function from the ids of its rows to the rows.
OpsRow(collection, docId, version, operation) ==
  [collection |-> collection, docId |-> docId, version |-> version,
   operation |-> operation]

EmptyDb ==
  [ops |-> {}, field |-> <<>>, view |-> <<>>, record |-> <<>>, table |-> <<>>]

\* the table whose rows an applier patched, with one row replaced or added
PutRow(table, id, row) == [x \in (DOMAIN table) \cup {id} |-> IF x = id THEN row ELSE table[x]]

\* prisma.ops.aggregate({_max: {version}, where: {collection, docId}}):
\* undefined (null) when no row matches
OpsMaxVersion(d, collection, docId) ==
  LET vs == {r.version : r \in {x \in d.ops : x.collection = collection /\ x.docId = docId}}
  IN  IF vs = {} THEN Undefined ELSE Some(CHOOSE v \in vs : \A w \in vs : w <= v)

\* the unique constraint on (collection, docId, version) of the ops table
OpsKeyTaken(rows, collection, docId, version) ==
  \E r \in rows : r.collection = collection /\ r.docId = docId /\ r.version = version

\* the outcome of a storage call or of an applier: the store it leaves, and
\* the error it threw if any
Ok(d) == [err |-> Undefined, db |-> d]

Throw(e, d) == [err |-> Some(e), db |-> d]

Threw(r) == Truthy(r.err)

(* --------------------------- mutation appliers ------------------------ *)

\* the stored field row of a field snapshot (fieldService.addField), and the
\* rows the other creation appliers insert; a new row has version 1
FieldRow(tableId, snapshot) ==
  [tableId |-> tableId, version |-> 1, name |-> snapshot.name,
   columnMeta |-> JsonStringify(snapshot.columnMeta)]

ViewRow(tableId, snapshot) == [tableId |-> tableId, version |-> 1, order |-> snapshot.order]

RecordRow(tableId) == [tableId |-> tableId, version |-> 1, cells |-> <<>>, order |-> <<>>]

TableRow(snapshot) == [version |-> 1, name |-> snapshot.name]

\* mutant: an insert under an id that is already there replaces the row
InsertRowReplaces(d, family, id, row) == Ok([d EXCEPT ![family] = PutRow(d[family], id, row)])

\* an insert into a document table: rejected when the id is already there
InsertRow(d, family, id, row) ==
  IF id \in DOMAIN d[family]
  THEN Throw("unique constraint", d)
  ELSE Ok([d EXCEPT ![family] = PutRow(d[family], id, row)])

AddTable(d, docId, snapshot) == InsertRow(d, "table", docId, TableRow(snapshot))

AddRecord(d, tableId, recordId) == InsertRow(d, "record", recordId, RecordRow(tableId))

AddField(d, tableId, docId, snapshot) == InsertRow(d, "field", docId, FieldRow(tableId, snapshot))

AddView(d, tableId, docId, snapshot) == InsertRow(d, "view", docId, ViewRow(tableId, snapshot))

\* recordService.setRecordOrder: the record's position under one view
RecordServiceSetRecordOrder(d, version, recordId, viewId, newOrder) ==
  IF recordId \in DOMAIN d.record
  THEN Ok([d EXCEPT !.record[recordId] =
             [@ EXCEPT !.version = version,
                       !.order = PutRow(@, viewId, newOrder)]])
  ELSE Ok(d)

RECURSIVE SetRecordOrder(_, _, _, _)
SetRecordOrder(d, version, recordId, contexts) ==
  IF contexts = <<>> THEN Ok(d)
  ELSE LET r == RecordServiceSetRecordOrder(d, version, recordId,
                  Head(contexts).viewId, Head(contexts).newOrder)
       IN  IF Threw(r) THEN r ELSE SetRecordOrder(r.db, version, recordId, Tail(contexts))

\* recordService.setRecord: the cells of the record, one per context
RECURSIVE SetCells(_, _)
SetCells(cells, contexts) ==
  IF contexts = <<>> THEN cells
  ELSE SetCells(PutRow(cells, Head(contexts).fieldId, Head(contexts).newValue), Tail(contexts))

SetRecords(d, version, recordId, contexts) ==
  IF recordId \in DOMAIN d.record
  THEN Ok([d EXCEPT !.record[recordId] =
             [@ EXCEPT !.version = version, !.cells = SetCells(@, contexts)]])
  ELSE Ok(d)

\* one context of addColumnMeta: read the field, merge the pairs of
\* newMetaValue into columnMeta[viewId], write the field back
AddColumnMetaOne(d, version, fieldId, context) ==
  IF fieldId \notin DOMAIN d.field THEN Throw("not found", d)
  ELSE LET columnMeta == JsonParse(d.field[fieldId].columnMeta)
           viewId == context.viewId
           entries == DOMAIN context.newMetaValue
       IN  IF entries # {} /\ viewId \notin DOMAIN columnMeta
           THEN Throw("TypeError", d)
           ELSE LET merged ==
                      IF entries = {} THEN columnMeta
                      ELSE [columnMeta EXCEPT ![viewId] =
                              [k \in (DOMAIN @) \cup entries |->
                                 IF k \in entries THEN context.newMetaValue[k] ELSE @[k]]]
                IN  Ok([d EXCEPT !.field[fieldId] =
                          [@ EXCEPT !.columnMeta = JsonStringify(merged),
                                    !.version = version]])

RECURSIVE AddColumnMeta(_, _, _, _)
AddColumnMeta(d, version, fieldId, contexts) ==
  IF contexts = <<>> THEN Ok(d)
  ELSE LET r == AddColumnMetaOne(d, version, fieldId, Head(contexts))
       IN  IF Threw(r) THEN r ELSE AddColumnMeta(r.db, version, fieldId, Tail(contexts))

\* one context of setColumnMeta: columnMeta[viewId][metaKey] = newMetaValue
\* throws a TypeError when columnMeta[viewId] is undefined
SetColumnMetaOne(d, version, fieldId, context) ==
  IF fieldId \notin DOMAIN d.field THEN Throw("not found", d)
  ELSE LET columnMeta == JsonParse(d.field[fieldId].columnMeta)
           viewId == context.viewId
       IN  IF viewId \notin DOMAIN columnMeta
           THEN Throw("TypeError", d)
           ELSE LET patched ==
                      [columnMeta EXCEPT ![viewId] =
                         PutRow(@, context.metaKey, context.newMetaValue)]
                IN  Ok([d EXCEPT !.field[fieldId] =
                          [@ EXCEPT !.columnMeta = JsonStringify(patched),
                                    !.version = version]])

\* mutant: the contexts are applied from the last to the first
RECURSIVE SetColumnMetaLastFirst(_, _, _, _)
SetColumnMetaLastFirst(d, version, fieldId, contexts) ==
  IF contexts = <<>> THEN Ok(d)
  ELSE LET r == SetColumnMetaOne(d, version, fieldId, contexts[Len(contexts)])
       IN  IF Threw(r) THEN r
           ELSE SetColumnMetaLastFirst(r.db, version, fieldId,
                                       SubSeq(contexts, 1, Len(contexts) - 1))

RECURSIVE SetColumnMeta(_, _, _, _)
SetColumnMeta(d, version, fieldId, contexts) ==
  IF contexts = <<>> THEN Ok(d)
  ELSE LET r == SetColumnMetaOne(d, version, fieldId, Head(contexts))
       IN  IF Threw(r) THEN r ELSE SetColumnMeta(r.db, version, fieldId, Tail(contexts))

\* prisma.field.update of the name: throws when the field has no row
SetFieldNameOne(d, version, fieldId, context) ==
  IF fieldId \notin DOMAIN d.field THEN Throw("not found", d)
  ELSE Ok([d EXCEPT !.field[fieldId] =
             [@ EXCEPT !.name = context.newName, !.version = version]])

RECURSIVE SetFieldName(_, _, _, _)
SetFieldName(d, version, fieldId, contexts) ==
  IF contexts = <<>> THEN Ok(d)
  ELSE LET r == SetFieldNameOne(d, version, fieldId, Head(contexts))
       IN  IF Threw(r) THEN r ELSE SetFieldName(r.db, version, fieldId, Tail(contexts))


(* --------------------- updateSnapshot, createSnapshot ----------------- *)

\* recordService.getDbTableName: the collection's table is there
GetDbTableName(d, collection) == Ok(d)

\* lodash groupBy(contexts, 'name') read by for..in: the names in the order
\* of their first occurrence, each with its contexts in their original order
RECURSIVE GroupNames(_)
GroupNames(contexts) ==
  IF contexts = <<>> THEN <<>>
  ELSE <<Head(contexts).name>> \o
       GroupNames(SelectSeq(Tail(contexts), LAMBDA c : c.name # Head(contexts).name))

GroupOf(contexts, opName) == SelectSeq(contexts, LAMBDA c : c.name = opName)

\* mutant: a group of a kind without an applier is passed over
ApplyGroupSkipsUnknown(d, version, docId, opName, opContexts) ==
  CASE opName = OpNameSetRecordOrder -> SetRecordOrder(d, version, docId, opContexts)
    [] opName = OpNameSetRecord -> SetRecords(d, version, docId, opContexts)
    [] opName = OpNameSetColumnMeta -> SetColumnMeta(d, version, docId, opContexts)
    [] opName = OpNameAddColumnMeta -> AddColumnMeta(d, version, docId, opContexts)
    [] opName = OpNameSetFieldName -> SetFieldName(d, version, docId, opContexts)
    [] OTHER -> Ok(d)

\* the switch of updateSnapshot on one group
ApplyGroup(d, version, docId, opName, opContexts) ==
  CASE opName = OpNameSetRecordOrder -> SetRecordOrder(d, version, docId, opContexts)
    [] opName = OpNameSetRecord -> SetRecords(d, version, docId, opContexts)
    [] opName = OpNameSetColumnMeta -> SetColumnMeta(d, version, docId, opContexts)
    [] opName = OpNameAddColumnMeta -> AddColumnMeta(d, version, docId, opContexts)
    [] opName = OpNameSetFieldName -> SetFieldName(d, version, docId, opContexts)
    [] OTHER -> Throw("not implemented", d)

\* mutant: the contexts are applied one by one in the order of the op
RECURSIVE ApplyUngrouped(_, _, _, _, _)
ApplyUngrouped(d, version, docId, contexts, names) ==
  IF contexts = <<>> THEN Ok(d)
  ELSE LET r == ApplyGroup(d, version, docId, Head(contexts).name, <<Head(contexts)>>)
       IN  IF Threw(r) THEN r ELSE ApplyUngrouped(r.db, version, docId, Tail(contexts), names)

RECURSIVE ApplyGroups(_, _, _, _, _)
ApplyGroups(d, version, docId, contexts, names) ==
  IF names = <<>> THEN Ok(d)
  ELSE LET r == ApplyGroup(d, version, docId, Head(names), GroupOf(contexts, Head(names)))
       IN  IF Threw(r) THEN r ELSE ApplyGroups(r.db, version, docId, contexts, Tail(names))

UpdateSnapshot(d, version, collection, docId, ops) ==
  LET t == GetDbTableName(d, collection)
      contexts == Ops2Contexts(ops)
  IN  IF Threw(t) THEN t
      ELSE ApplyGroups(t.db, version, docId, contexts, GroupNames(contexts))

CreateSnapshot(d, collection, docId, snapshot) ==
  LET docType == Slice3(docId)
  IN  CASE docType = IdPrefixTable -> AddTable(d, docId, snapshot)
        [] docType = IdPrefixRecord -> AddRecord(d, collection, docId)
        [] docType = IdPrefixField -> AddField(d, collection, docId, snapshot)
        [] docType = IdPrefixView -> AddView(d, collection, docId, snapshot)
        [] OTHER -> Ok(d)

(* -------------------------------- commit ------------------------------ *)

\* callback(err) and callback(null, true)
CallbackError(e) == [err |-> Some(e), succeed |-> Undefined]

CallbackSucceeded == [err |-> Undefined, succeed |-> Some(TRUE)]

NoResult == [err |-> Undefined, succeed |-> Undefined]

NoCall == [id |-> EmptyId, rawOp |-> NoOp, v |-> 0]

\* mutant: the where clause of the aggregate leaves out the document id
MaxVersionOfCollection(d, collection, id) ==
  LET vs == {r.version : r \in {x \in d.ops : x.collection = collection}}
  IN  IF vs = {} THEN 0 ELSE CHOOSE v \in vs : \A w \in vs : w <= v

\* const maxVersion = opsResult._max.version || 0
MaxVersionOf(d, collection, id) ==
  LET m == OpsMaxVersion(d, collection, id)
  IN  IF Truthy(m) /\ m[1] # 0 THEN m[1] ELSE 0

\* mutant: only a stale version is a mismatch, a version ahead is accepted
VersionMismatchStaleOnly(v, maxVersion) == v <= maxVersion

\* if (snapshot.v !== maxVersion + 1)
VersionMismatch(v, maxVersion) == v # maxVersion + 1

\* what the transaction of call p reads: the committed store and its own
\* uncommitted log rows
TxView(p) == [db EXCEPT !.ops = @ \cup tx[p]]

\* the appliers of commit after the log row is written
ApplyOp(d, collection, id, rawOp, v) ==
  LET c == IF Truthy(rawOp.create)
           THEN CreateSnapshot(d, collection, id, rawOp.create[1])
           ELSE Ok(d)
  IN  IF Threw(c) THEN c
      ELSE IF Truthy(rawOp.op)
           THEN UpdateSnapshot(c.db, v, collection, id, rawOp.op[1])
           ELSE c


(* ------------------------ snapshot reconstructors --------------------- *)

\* new Snapshot(id, v, type, data, null)
Snapshot(id, v, type, data) == [id |-> id, v |-> v, type |-> type, data |-> data]

\* the orders in which the storage may return the rows of a set of ids
Orders(S) ==
  {o \in [1..Cardinality(S) -> S] : \A i, j \in 1..Cardinality(S) : o[i] = o[j] => i = j}

\* findMany({where: {tableId, id: {in: ids}}}): the ids of the matching rows
FindMany(table, tableId, ids) ==
  {id \in DOMAIN table : table[id].tableId = tableId /\ \E i \in 1..Len(ids) : ids[i] = id}

\* Array.prototype.sort with the comparator indexOf(a.id) - indexOf(b.id):
\* a stable insertion of each element after those not greater than it
RECURSIVE InsertSorted(_, _, _)
InsertSorted(sorted, x, ids) ==
  IF sorted = <<>> THEN <<x>>
  ELSE IF IndexOf(ids, x.id) - IndexOf(ids, Head(sorted).id) < 0
       THEN <<x>> \o sorted
       ELSE <<Head(sorted)>> \o InsertSorted(Tail(sorted), x, ids)

RECURSIVE SortByIndexOf(_, _)
SortByIndexOf(snapshots, ids) ==
  IF snapshots = <<>> THEN <<>>
  ELSE InsertSorted(SortByIndexOf(SubSeq(snapshots, 1, Len(snapshots) - 1), ids),
                    snapshots[Len(snapshots)], ids)

\* createFieldInstanceByRaw and instanceToPlain: the field value of a row
FieldVo(id, row) == [id |-> id, name |-> row.name]

\* getFieldSnapshotBulk over the rows in the order the storage returned them
GetFieldSnapshotBulk(d, tableId, fieldIds, order) ==
  SortByIndexOf(
    [i \in 1..Len(order) |->
       Snapshot(order[i], d.field[order[i]].version, Some("json0"),
                Some([field |-> FieldVo(order[i], d.field[order[i]]),
                      columnMeta |-> JsonParse(d.field[order[i]].columnMeta)]))],
    fieldIds)

GetViewSnapshotBulk(d, tableId, viewIds, order) ==
  SortByIndexOf(
    [i \in 1..Len(order) |->
       Snapshot(order[i], d.view[order[i]].version, Some("json0"),
                Some([view |-> [id |-> order[i]], order |-> d.view[order[i]].order]))],
    viewIds)

\* the cells a projection keeps
Project(cells, projection) ==
  IF Truthy(projection)
  THEN [k \in {x \in DOMAIN cells : x \in DOMAIN projection[1] /\ projection[1][x]} |-> cells[k]]
  ELSE cells

\* recordService.getRecordSnapshotBulk
GetRecordSnapshotBulk(d, tableId, recordIds, projection, order) ==
  SortByIndexOf(
    [i \in 1..Len(order) |->
       Snapshot(order[i], d.record[order[i]].version, Some("json0"),
                Some([record |-> [id |-> order[i],
                                  fields |-> Project(d.record[order[i]].cells, projection)],
                      recordOrder |-> d.record[order[i]].order]))],
    recordIds)

\* String.prototype.split('_')
RECURSIVE Split(_)
Split(s) ==
  IF \E i \in 1..Len(s) : s[i] = "_"
  THEN LET i == CHOOSE k \in 1..Len(s) : s[k] = "_" /\ \A j \in 1..(k-1) : s[j] # "_"
       IN  <<SubSeq(s, 1, i - 1)>> \o Split(SubSeq(s, i + 1, Len(s)))
  ELSE <<s>>

\* recordService.getRowCount
GetRowCount(d, tableId, viewId) ==
  Cardinality({id \in DOMAIN d.record : d.record[id].tableId = tableId})

\* getAggregateBulk: the snapshots, or the error of the first id whose
\* aggregate key is not RowCount
RECURSIVE GetAggregateBulk(_, _, _)
GetAggregateBulk(d, tableId, rowCountIds) ==
  IF rowCountIds = <<>> THEN [err |-> Undefined, data |-> <<>>]
  ELSE LET id == Head(rowCountIds)
           aggregateKey == Split(id)[1]
           viewId == IF Len(Split(id)) > 1 THEN Some(Split(id)[2]) ELSE Undefined
       IN  IF aggregateKey = AggregateKeyRowCount
           THEN LET rest == GetAggregateBulk(d, tableId, Tail(rowCountIds))
                IN  IF Truthy(rest.err) THEN rest
                    ELSE [err |-> Undefined,
                          data |-> <<Snapshot(id, 1, Some("json0"),
                                              Some(GetRowCount(d, tableId, viewId)))>>
                                   \o rest.data]
           ELSE [err |-> Some("not implemented"), data |-> <<>>]


(* ---------------------------- getSnapshotBulk ------------------------- *)

\* ids.find((id) => id.slice(0, 3) !== docType): the first such id
FindOtherType(ids, docType) ==
  IF \E i \in 1..Len(ids) : Slice3(ids[i]) # docType
  THEN Some(ids[CHOOSE i \in 1..Len(ids) :
                  Slice3(ids[i]) # docType /\ \A j \in 1..(i-1) : Slice3(ids[j]) = docType])
  ELSE Undefined

\* JS truthiness of the string or undefined that find returns
TruthyString(opt) == opt # Undefined /\ opt[1] # <<>>

\* mutant: the projection is handed on whatever it carries
RecordProjectionKeepsProjection(projection) == projection

\* projection && projection['$submit'] ? undefined : projection
RecordProjection(projection) ==
  IF Truthy(projection) /\ "$submit" \in DOMAIN projection[1] /\ projection[1]["$submit"]
  THEN Undefined
  ELSE projection

\* the rows the reconstructor of the batch's family finds, in any order
StorageOrders(d, collection, ids) ==
  IF ids = <<>> THEN {<<>>}
  ELSE LET docType == Slice3(ids[1])
       IN  CASE docType = IdPrefixRecord -> Orders(FindMany(d.record, collection, ids))
             [] docType = IdPrefixField -> Orders(FindMany(d.field, collection, ids))
             [] docType = IdPrefixView -> Orders(FindMany(d.view, collection, ids))
             [] OTHER -> {<<>>}

\* the switch of getSnapshotBulk on the family of the batch
SnapshotData(d, collection, ids, projection, order) ==
  LET docType == Slice3(ids[1])
  IN  CASE docType = IdPrefixRecord ->
             [err |-> Undefined,
              data |-> GetRecordSnapshotBulk(d, collection, ids,
                                             RecordProjection(projection), order)]
        [] docType = IdPrefixField ->
             [err |-> Undefined, data |-> GetFieldSnapshotBulk(d, collection, ids, order)]
        [] docType = IdPrefixView ->
             [err |-> Undefined, data |-> GetViewSnapshotBulk(d, collection, ids, order)]
        [] docType = IdPrefixAggregate -> GetAggregateBulk(d, collection, ids)
        [] OTHER -> [err |-> Undefined, data |-> <<>>]

\* getSnapshotBulk: what the callback is called with, callback(err) or
\* callback(null, snapshots)
GetSnapshotBulk(d, collection, ids, projection, order) ==
  IF ids = <<>> THEN [err |-> Some("TypeError"), data |-> Undefined]
  ELSE IF TruthyString(FindOtherType(ids, Slice3(ids[1])))
  THEN [err |-> Some("get snapshot bulk ids must be same type"), data |-> Undefined]
  ELSE LET r == SnapshotData(d, collection, ids, projection, order)
       IN  IF Truthy(r.err) THEN [err |-> r.err, data |-> Undefined]
           ELSE IF Len(r.data) # 0
           THEN [err |-> Undefined, data |-> Some(r.data)]
           ELSE [err |-> Undefined,
                 data |-> Some([i \in 1..Len(ids) |->
                                  Snapshot(ids[i], 0, Undefined, Undefined)])]

(* -------------------------------- skipPoll ---------------------------- *)

\* mutant: the test for a create or a delete is left out
SkipPollEditTestOnly(op) == ~Truthy(op.op)

\* if (op.create || op.del) return false; return !op.op;
SkipPoll(op) == IF Truthy(op.create) \/ op.del THEN FALSE ELSE ~Truthy(op.op)


(* --------------------------------- getOps ----------------------------- *)

\* the SQL comparison version < ? with a bound parameter: with NULL bound
\* the comparison is NULL and the row is not selected
SqlLess(a, b) == b # Undefined /\ a < b[1]

\* SELECT version, operation FROM ops WHERE collection = ? AND doc_id = ?
\* AND version >= ? AND version < ?
GetOpsRows(d, collection, id, from, to) ==
  {r \in d.ops : /\ r.collection = collection
                 /\ r.docId = id
                 /\ r.version >= from
                 /\ SqlLess(r.version, to)}

\* getOps over the rows in the order the storage returned them
GetOps(d, collection, id, from, to, order) ==
  [err |-> Undefined, data |-> Some([i \in 1..Len(order) |-> JsonParse(order[i].operation)])]

(* -------------------------------- queryPoll --------------------------- *)

\* SnapshotQueryType of @teable-group/core
SnapshotQueryTypeField == "field"

SnapshotQueryTypeRecord == "record"

SnapshotQueryTypeView == "view"

SnapshotQueryTypeAggregate == "aggregate"

\* the ids of the rows of a document table that belong to a table
IdsOfTable(table, tableId) == {id \in DOMAIN table : table[id].tableId = tableId}

\* prisma.view.findFirstOrThrow({where: {tableId}}): the views it may find,
\* undefined when there is none
FindFirst(table, tableId) ==
  IF IdsOfTable(table, tableId) = {} THEN {Undefined}
  ELSE {Some(id) : id \in IdsOfTable(table, tableId)}

\* mutant: the view id of the query is not looked at
GetAggregateIdsFirstViewOnly(d, collection, query, first) ==
  IF first = Undefined
  THEN [err |-> Some("not found"), ids |-> <<>>]
  ELSE [err |-> Undefined, ids |-> <<query.aggregateKey \o <<"_">> \o first[1]>>]

\* getAggregateIds: [`${query.aggregateKey}_${viewId}`]
GetAggregateIds(d, collection, query, first) ==
  IF TruthyString(query.viewId)
  THEN [err |-> Undefined, ids |-> <<query.aggregateKey \o <<"_">> \o query.viewId[1]>>]
  ELSE IF first = Undefined
  THEN [err |-> Some("not found"), ids |-> <<>>]
  ELSE [err |-> Undefined, ids |-> <<query.aggregateKey \o <<"_">> \o first[1]>>]

\* fieldService.getFieldIds, recordService.getRecordIds,
\* viewService.getViewIds: the orders in which the ids may be listed
QueryOrders(d, collection, query) ==
  CASE query.type = SnapshotQueryTypeField -> Orders(IdsOfTable(d.field, collection))
    [] query.type = SnapshotQueryTypeRecord -> Orders(IdsOfTable(d.record, collection))
    [] query.type = SnapshotQueryTypeView -> Orders(IdsOfTable(d.view, collection))
    [] OTHER -> {<<>>}

\* queryPoll: the calls of its callback, callback(null, ids) or
\* callback(e, []); no call at all when no branch takes the query type
QueryPoll(d, collection, query, order, first) ==
  CASE query.type \in {SnapshotQueryTypeField, SnapshotQueryTypeRecord, SnapshotQueryTypeView} ->
         <<[err |-> Undefined, ids |-> order]>>
    [] query.type = SnapshotQueryTypeAggregate ->
         LET r == GetAggregateIds(d, collection, query, first)
         IN  IF Truthy(r.err) THEN <<[err |-> r.err, ids |-> <<>>]>>
             ELSE <<[err |-> Undefined, ids |-> r.ids]>>
    [] OTHER -> <<>>

(* ---------------------------------- query ---------------------------- *)

\* query: the calls of its callback; one per call of the callback it hands
\* to queryPoll: callback(error, []) on an error, and otherwise what
\* getSnapshotBulk calls back with for the ids polled
Query(d, collection, query, projection, order, first, rows) ==
  LET polls == QueryPoll(d, collection, query, order, first)
  IN  [i \in 1..Len(polls) |->
         IF Truthy(polls[i].err)
         THEN [err |-> polls[i].err, data |-> Some(<<>>)]
         ELSE GetSnapshotBulk(d, collection, polls[i].ids, projection, rows)]

\* the orders in which the storage may return the rows of the ids polled
QueryRows(d, collection, query, order, first) ==
  LET polls == QueryPoll(d, collection, query, order, first)
  IN  IF polls = <<>> \/ Truthy(polls[1].err) THEN {<<>>}
      ELSE StorageOrders(d, collection, polls[1].ids)

(* ------------------------- the calls of the model --------------------- *)

\* the initial snapshot of a field: two views with metadata, none for "v2"
FieldSnapshot ==
  [name |-> "A",
   columnMeta |-> ("v1" :> ("width" :> 100 @@ "hidden" :> 0) @@ "v3" :> ("width" :> 50))]

EditSet == EditOp(<<SetColumnMetaCtx("v1", "width", 120)>>)

EditSetNoView == EditOp(<<SetColumnMetaCtx("v2", "width", 120)>>)

EditNameThenNoView == EditOp(<<SetFieldNameCtx("B"), SetColumnMetaCtx("v2", "width", 120)>>)

EditEmpty == EditOp(<<>>)

EditCell == EditOp(<<SetRecordCtx("fld1", 7)>>)

\* the operations committed on each document
OpsOf(id) ==
  CASE id = Fld1 ->
         {CreateOp(FieldSnapshot), DeleteOp, EditEmpty, EditSet, EditSetNoView,
          EditNameThenNoView}
    [] id = Rec1 -> {CreateOp([id |-> "rec1"]), EditCell}
    [] OTHER -> {}

CommitIds == {Fld1, Rec1}

Versions == 1..MaxVersion

(* ------------------------------- actions ------------------------------ *)

Init ==
  /\ db = EmptyDb
  /\ tx = [p \in Procs |-> {}]
  /\ pc = [p \in Procs |-> "idle"]
  /\ call = [p \in Procs |-> NoCall]
  /\ res = [p \in Procs |-> NoResult]
  /\ ret = [fn |-> "none"]
  /\ closed = FALSE

\* commit: the version read, and the version check failing
CommitReject(p, id, rawOp, v) ==
  /\ pc[p] = "idle"
  /\ VersionMismatch(v, MaxVersionOf(TxView(p), Coll, id))
  /\ pc' = [pc EXCEPT ![p] = "done"]
  /\ call' = [call EXCEPT ![p] = [id |-> id, rawOp |-> rawOp, v |-> v]]
  /\ res' = [res EXCEPT ![p] = CallbackError("version mismatch")]
  /\ UNCHANGED <<db, tx, ret, closed>>

\* commit: the version read, and the version check passing
CommitCheck(p, id, rawOp, v) ==
  /\ pc[p] = "idle"
  /\ ~VersionMismatch(v, MaxVersionOf(TxView(p), Coll, id))
  /\ pc' = [pc EXCEPT ![p] = "checked"]
  /\ call' = [call EXCEPT ![p] = [id |-> id, rawOp |-> rawOp, v |-> v]]
  /\ UNCHANGED <<db, tx, res, ret, closed>>

\* an uncommitted log row of another transaction under the same key: the
\* insert waits for that transaction to end
OpsKeyLocked(p, collection, id, v) ==
  \E q \in Procs \ {p} : OpsKeyTaken(tx[q], collection, id, v)

\* commit: prisma.ops.create writes the log row
CommitAppend(p) ==
  /\ pc[p] = "checked"
  /\ ~OpsKeyLocked(p, Coll, call[p].id, call[p].v)
  /\ ~OpsKeyTaken(TxView(p).ops, Coll, call[p].id, call[p].v)
  /\ tx' = [tx EXCEPT ![p] =
              @ \cup {OpsRow(Coll, call[p].id, call[p].v, JsonStringify(call[p].rawOp))}]
  /\ pc' = [pc EXCEPT ![p] = "logged"]
  /\ UNCHANGED <<db, call, res, ret, closed>>

\* commit: prisma.ops.create throws on the unique constraint; the catch
\* calls back with the error and the transaction is rolled back
CommitAppendThrow(p) ==
  /\ pc[p] = "checked"
  /\ ~OpsKeyLocked(p, Coll, call[p].id, call[p].v)
  /\ OpsKeyTaken(TxView(p).ops, Coll, call[p].id, call[p].v)
  /\ tx' = [tx EXCEPT ![p] = {}]
  /\ res' = [res EXCEPT ![p] = CallbackError("ops unique constraint")]
  /\ pc' = [pc EXCEPT ![p] = "done"]
  /\ UNCHANGED <<db, call, ret, closed>>

\* mutant: the commit keeps only the newest log row of the document
CommitSucceedCompactsLog(p) ==
  LET r == ApplyOp(TxView(p), Coll, call[p].id, call[p].rawOp, call[p].v)
  IN  /\ pc[p] = "logged"
      /\ ~Threw(r)
      /\ db' = [r.db EXCEPT !.ops = {x \in @ : x.docId # call[p].id \/ x.version = call[p].v}]
      /\ tx' = [tx EXCEPT ![p] = {}]
      /\ res' = [res EXCEPT ![p] = CallbackSucceeded]
      /\ pc' = [pc EXCEPT ![p] = "done"]
      /\ UNCHANGED <<call, ret, closed>>

\* commit: the appliers run to the end, callback(null, true), and the
\* transaction commits
CommitSucceed(p) ==
  LET r == ApplyOp(TxView(p), Coll, call[p].id, call[p].rawOp, call[p].v)
  IN  /\ pc[p] = "logged"
      /\ ~Threw(r)
      /\ db' = r.db
      /\ tx' = [tx EXCEPT ![p] = {}]
      /\ res' = [res EXCEPT ![p] = CallbackSucceeded]
      /\ pc' = [pc EXCEPT ![p] = "done"]
      /\ UNCHANGED <<call, ret, closed>>

\* mutant: the catch calls back with the error and the writes stay
CommitFailKeepsWrites(p) ==
  LET r == ApplyOp(TxView(p), Coll, call[p].id, call[p].rawOp, call[p].v)
  IN  /\ pc[p] = "logged"
      /\ Threw(r)
      /\ db' = r.db
      /\ tx' = [tx EXCEPT ![p] = {}]
      /\ res' = [res EXCEPT ![p] = CallbackError(r.err[1])]
      /\ pc' = [pc EXCEPT ![p] = "done"]
      /\ UNCHANGED <<call, ret, closed>>

\* commit: an applier throws, the catch calls back with the error, and the
\* transaction is rolled back
CommitFail(p) ==
  LET r == ApplyOp(TxView(p), Coll, call[p].id, call[p].rawOp, call[p].v)
  IN  /\ pc[p] = "logged"
      /\ Threw(r)
      /\ tx' = [tx EXCEPT ![p] = {}]
      /\ res' = [res EXCEPT ![p] = CallbackError(r.err[1])]
      /\ pc' = [pc EXCEPT ![p] = "done"]
      /\ UNCHANGED <<db, call, ret, closed>>

\* the caller has its answer; the process is free for the next call
Return(p) ==
  /\ pc[p] = "done"
  /\ pc' = [pc EXCEPT ![p] = "idle"]
  /\ call' = [call EXCEPT ![p] = NoCall]
  /\ res' = [res EXCEPT ![p] = NoResult]
  /\ UNCHANGED <<db, tx, ret, closed>>

Next ==
  \E p \in Procs :
    \/ \E id \in CommitIds : \E rawOp \in OpsOf(id) : \E v \in Versions :
         \/ CommitReject(p, id, rawOp, v)
         \/ CommitCheck(p, id, rawOp, v)
    \/ CommitAppend(p)
    \/ CommitAppendThrow(p)
    \/ CommitSucceed(p)
    \/ CommitFail(p)
    \/ Return(p)

Spec == Init /\ [][Next]_vars


(* ----------------------------- the read path -------------------------- *)

\* the store after a commit that ran alone and succeeded
Committed(d, id, rawOp, v) ==
  ApplyOp([d EXCEPT !.ops = @ \cup {OpsRow(Coll, id, v, JsonStringify(rawOp))}],
          Coll, id, rawOp, v).db

CreateIf(d, S, id, data) == IF id \in S THEN Committed(d, id, CreateOp(data), 1) ELSE d

\* the stores the reads run on: any of the documents created, the first
\* field and the record possibly edited once
ReadDocs == {Fld1, Fld2, Viw1, Rec1}

ReadDb(S, edited) ==
  LET d1 == CreateIf(EmptyDb, S, Fld1, FieldSnapshot)
      d2 == CreateIf(d1, S, Fld2, [name |-> "C", columnMeta |-> ("v1" :> <<>>)])
      d3 == CreateIf(d2, S, Viw1, [order |-> 1])
      d4 == CreateIf(d3, S, Rec1, [id |-> "rec1"])
      d5 == IF edited /\ Fld1 \in S THEN Committed(d4, Fld1, EditSet, 2) ELSE d4
  IN  IF edited /\ Rec1 \in S THEN Committed(d5, Rec1, EditCell, 2) ELSE d5

ReadDbs == {ReadDb(S, e) : S \in SUBSET ReadDocs, e \in BOOLEAN}

ReadIds == {Fld1, Fld2, Viw1, Rec1, Xyz1, EmptyId, RowCountV1, AverageV1, RowsV1}

IdLists == UNION {[1..n -> ReadIds] : n \in 0..MaxIds}

Projections ==
  {Undefined, Some("fld1" :> TRUE), Some("fld2" :> TRUE),
   Some("$submit" :> TRUE @@ "fld2" :> TRUE), Some("$submit" :> FALSE @@ "fld2" :> TRUE)}

\* the queries handed to queryPoll: one of each type, the aggregate ones
\* with a view id, with none and with an empty one
Queries ==
  {[type |-> t, viewId |-> Undefined, aggregateKey |-> AggregateKeyRowCount] :
     t \in {SnapshotQueryTypeField, SnapshotQueryTypeRecord, SnapshotQueryTypeView, "other"}}
  \cup {[type |-> SnapshotQueryTypeAggregate, viewId |-> w, aggregateKey |-> k] :
          w \in {Undefined, Some(EmptyId), Some(Viw1), Some(<<"v", "i", "w", "9">>)},
          k \in {AggregateKeyRowCount, AggregateKeyAverage}}

PollOps == (UNION {OpsOf(id) : id \in CommitIds}) \cup {NoOp}

InitRead ==
  /\ db \in ReadDbs
  /\ tx = [p \in Procs |-> {}]
  /\ pc = [p \in Procs |-> "idle"]
  /\ call = [p \in Procs |-> NoCall]
  /\ res = [p \in Procs |-> NoResult]
  /\ ret = [fn |-> "none"]
  /\ closed = FALSE

CallGetSnapshotBulk(ids, projection, order) ==
  /\ ret.fn = "none"
  /\ ret' = [fn |-> "getSnapshotBulk", ids |-> ids, projection |-> projection,
             order |-> order, cb |-> GetSnapshotBulk(db, Coll, ids, projection, order)]
  /\ UNCHANGED <<db, tx, pc, call, res, closed>>

CallSkipPoll(id, op) ==
  /\ ret.fn = "none"
  /\ ret' = [fn |-> "skipPoll", id |-> id, op |-> op, skip |-> SkipPoll(op)]
  /\ UNCHANGED <<db, tx, pc, call, res, closed>>

CallQueryPoll(query, order, first) ==
  /\ ret.fn = "none"
  /\ ret' = [fn |-> "queryPoll", query |-> query, order |-> order, first |-> first,
             cb |-> QueryPoll(db, Coll, query, order, first)]
  /\ UNCHANGED <<db, tx, pc, call, res, closed>>

CallQuery(query, projection, order, first, rows) ==
  /\ ret.fn = "none"
  /\ ret' = [fn |-> "query", query |-> query, projection |-> projection,
             polled |-> QueryPoll(db, Coll, query, order, first),
             cb |-> Query(db, Coll, query, projection, order, first, rows)]
  /\ UNCHANGED <<db, tx, pc, call, res, closed>>

CallGetOps(id, from, to, order) ==
  /\ ret.fn = "none"
  /\ ret' = [fn |-> "getOps", id |-> id, from |-> from, to |-> to,
             cb |-> GetOps(db, Coll, id, from, to, order)]
  /\ UNCHANGED <<db, tx, pc, call, res, closed>>

\* close: this.closed = true; if (callback) callback()
Close(callback) ==
  /\ ret.fn = "none"
  /\ closed' = TRUE
  /\ ret' = [fn |-> "close", called |-> callback]
  /\ UNCHANGED <<db, tx, pc, call, res>>

\* the caller has taken the answer of the last read
ReadReturn ==
  /\ ret.fn # "none"
  /\ ret' = [fn |-> "none"]
  /\ UNCHANGED <<db, tx, pc, call, res, closed>>

\* one queryPoll with each outcome of the storage
PollQuery(queries) ==
  \E query \in queries : \E order \in QueryOrders(db, Coll, query) :
    \E first \in FindFirst(db.view, Coll) : CallQueryPoll(query, order, first)

\* one query with each outcome of the storage
RunQuery(queries) ==
  \E query \in queries : \E order \in QueryOrders(db, Coll, query) :
    \E first \in FindFirst(db.view, Coll) :
      \E rows \in QueryRows(db, Coll, query, order, first) :
        CallQuery(query, Undefined, order, first, rows)

NextRead ==
  \/ ReadReturn
  \/ \E ids \in IdLists : \E projection \in Projections :
       \E order \in StorageOrders(db, Coll, ids) :
         CallGetSnapshotBulk(ids, projection, order)
  \/ \E id \in CommitIds : \E op \in PollOps : CallSkipPoll(id, op)
  \/ PollQuery(Queries)
  \/ RunQuery(Queries)

SpecRead == InitRead /\ [][NextRead]_vars

(* ---------------------- one caller, one call at a time ---------------- *)

\* two SetColumnMeta on one leaf around an AddColumnMeta on the same leaf
EditGrouped ==
  EditOp(<<SetColumnMetaCtx("v1", "width", 1), AddColumnMetaCtx("v1", "width" :> 2),
           SetColumnMetaCtx("v1", "width", 3)>>)

\* two SetColumnMeta on one leaf around a SetFieldName
EditTwice ==
  EditOp(<<SetColumnMetaCtx("v1", "width", 1), SetFieldNameCtx("B"),
           SetColumnMetaCtx("v1", "width", 2)>>)

\* two SetColumnMeta on one leaf, then an AddColumnMeta on the same leaf
EditSetsThenAdd ==
  EditOp(<<SetColumnMetaCtx("v1", "width", 1), SetColumnMetaCtx("v1", "width", 3),
           AddColumnMetaCtx("v1", "width" :> 2)>>)

\* an AddColumnMeta that overwrites one key and adds one, on a view that
\* has an entry with another key, and one on a view without an entry
EditAdd == EditOp(<<AddColumnMetaCtx("v1", "width" :> 7 @@ "color" :> 1)>>)

EditAddNoView == EditOp(<<AddColumnMetaCtx("v2", "width" :> 7)>>)

\* a rename, then a descriptor of a kind without an applier
EditNameThenOther == EditOp(<<SetFieldNameCtx("B"), OtherCtx>>)

SoloIds == {Fld1, Viw1, Xyz1}

OpsSolo(id) ==
  CASE id = Fld1 ->
         {CreateOp(FieldSnapshot), DeleteOp, EditSet, EditGrouped, EditTwice, EditSetsThenAdd,
          EditAdd, EditAddNoView, EditNameThenOther}
    [] id = Viw1 -> {CreateOp([order |-> 1])}
    [] id = Xyz1 -> {CreateOp([name |-> "X"])}
    [] OTHER -> {}

SoloVersions == 1..MaxSoloVersion

\* the ranges of getOps: to is null or a version
SoloTos == {Undefined} \cup {Some(v) : v \in 1..(MaxSoloVersion + 1)}

SoloQueries ==
  {q \in Queries : q.viewId = Undefined /\ q.aggregateKey = AggregateKeyRowCount
                   /\ q.type \in {SnapshotQueryTypeField, SnapshotQueryTypeAggregate}}

\* the calls of one caller that waits for the answer of a call before the
\* next one; alone, its insert into the log never meets a taken key
NextSolo ==
  \/ /\ ret.fn = "none"
     /\ \E id \in SoloIds : \E rawOp \in OpsSolo(id) : \E v \in SoloVersions :
          \/ CommitReject(1, id, rawOp, v)
          \/ CommitCheck(1, id, rawOp, v)
  \/ CommitAppend(1)
  \/ CommitSucceed(1)
  \/ CommitFail(1)
  \/ Return(1)
  \/ /\ pc[1] = "idle"
     /\ \/ \E id \in {Fld1, Xyz1} : \E from \in SoloVersions : \E to \in SoloTos :
             \E order \in Orders(GetOpsRows(db, Coll, id, from, to)) :
               CallGetOps(id, from, to, order)
        \/ PollQuery(SoloQueries)
        \/ \E id \in SoloIds : \E order \in StorageOrders(db, Coll, <<id>>) :
             CallGetSnapshotBulk(<<id>>, Undefined, order)
        \/ \E callback \in BOOLEAN : Close(callback)
  \/ ReadReturn

SpecSolo == Init /\ [][NextSolo]_vars


(* ================================ claims ============================== *)

\* the highest version logged for a document, 0 when it has no log entry
MaxLoggedVersion(d, id) ==
  LET vs == {r.version : r \in {x \in d.ops : x.collection = Coll /\ x.docId = id}}
  IN  IF vs = {} THEN 0 ELSE CHOOSE v \in vs : \A w \in vs : w <= v

LoggedVersions(d, id) ==
  {r.version : r \in {x \in d.ops : x.collection = Coll /\ x.docId = id}}

LogRows(d, id) == {x \in d.ops : x.collection = Coll /\ x.docId = id}

\* C1: a commit whose declared version is not maxLoggedVersion + 1 calls
\* back with the version mismatch error, never with succeeded, and leaves
\* the operation log and every document table as they were.
C1_MismatchRejected ==
  [][\A p \in Procs :
       (/\ pc[p] = "idle"
        /\ pc'[p] # "idle"
        /\ call'[p].v # MaxLoggedVersion(db, call'[p].id) + 1)
       => (/\ pc'[p] = "done"
           /\ res'[p].err = Some("version mismatch")
           /\ res'[p].succeed = Undefined
           /\ db' = db
           /\ tx' = tx)]_vars

\* a rejected commit on a document that has a row and a log
C1_Witness ==
  \E p \in Procs :
    /\ pc[p] = "done"
    /\ res[p].err = Some("version mismatch")
    /\ call[p].id \in DOMAIN db.field
    /\ call[p].v # MaxLoggedVersion(db, call[p].id) + 1

\* C2: the logged versions of every document are exactly 1..N, without a
\* gap and without two entries of one version.
C2_GaplessLog ==
  \A id \in CommitIds :
    /\ LoggedVersions(db, id) = 1..Cardinality(LoggedVersions(db, id))
    /\ Cardinality(LogRows(db, id)) = Cardinality(LoggedVersions(db, id))

\* two versions logged for one document while a commit has been rejected
\* and another has failed in its appliers
C2_Witness ==
  /\ LoggedVersions(db, Fld1) = {1, 2}
  /\ \E p \in Procs : pc[p] = "done" /\ Truthy(res[p].err)


\* C3: of two commits that declared the same version on the same document
\* and passed no applier error, one calls back with succeeded, the other
\* with the version mismatch error, and the log holds one entry at that
\* version, the winner's operation.
C3_RaceLoserGetsVersionConflict ==
  \A p, q \in Procs :
    (/\ p # q
     /\ pc[p] = "done" /\ pc[q] = "done"
     /\ call[p].id = call[q].id /\ call[p].v = call[q].v
     /\ res[p].succeed = Some(TRUE)
     /\ res[q].err \notin {Some("not found"), Some("TypeError"), Some("not implemented"),
                           Some("unique constraint")})
    => (/\ res[q].err = Some("version mismatch")
        /\ res[q].succeed = Undefined
        /\ {r \in LogRows(db, call[p].id) : r.version = call[p].v}
             = {OpsRow(Coll, call[p].id, call[p].v, JsonStringify(call[p].rawOp))})

\* the document rows of the four families that carry a version
VersionedRows(d) ==
  [id \in (DOMAIN d.field) \cup (DOMAIN d.record) \cup (DOMAIN d.view) \cup (DOMAIN d.table) |->
     IF id \in DOMAIN d.field THEN d.field[id]
     ELSE IF id \in DOMAIN d.record THEN d.record[id]
     ELSE IF id \in DOMAIN d.view THEN d.view[id]
     ELSE d.table[id]]

\* C4: the stored version of every Table, Field, View and Record document
\* equals the highest version logged for it (stated for the documents whose
\* first logged operation is their create).
C4_VersionIsMaxLogged ==
  \A id \in DOMAIN VersionedRows(db) :
    (\E r \in LogRows(db, id) : r.version = 1 /\ Truthy(JsonParse(r.operation).create))
    => VersionedRows(db)[id].version = MaxLoggedVersion(db, id)

\* C5: when an applier throws after the log row was written, the commit
\* calls back with that error and not with succeeded, and neither the log
\* row nor any mutation of the commit is in the persisted state.
C5_ApplierFailureRollsBack ==
  [][\A p \in Procs :
       (/\ pc[p] = "logged"
        /\ pc'[p] # "logged"
        /\ Threw(ApplyOp(TxView(p), Coll, call[p].id, call[p].rawOp, call[p].v)))
       => (/\ res'[p].err = ApplyOp(TxView(p), Coll, call[p].id, call[p].rawOp, call[p].v).err
           /\ res'[p].succeed = Undefined
           /\ db' = db
           /\ tx'[p] = {}
           /\ ~OpsKeyTaken(db'.ops, Coll, call[p].id, call[p].v))]_vars

\* the second applier of an edit threw after the first had renamed the
\* field: the field keeps its name and the log has no row of that version
C5_Witness ==
  \E p \in Procs :
    /\ pc[p] = "done"
    /\ call[p].rawOp = EditNameThenNoView
    /\ res[p].err = Some("TypeError")
    /\ call[p].id \in DOMAIN db.field
    /\ db.field[call[p].id].name = "A"
    /\ ~OpsKeyTaken(db.ops, Coll, call[p].id, call[p].v)


\* C10: a commit of an edit [SetColumnMeta{viewId, metaKey, newMetaValue}]
\* accepted at the next version on an existing field succeeds, and the field
\* snapshot read back has columnMeta[viewId][metaKey] = newMetaValue with
\* every other key of that view and every other view unchanged; for every
\* viewId, one without an entry in the stored metadata included.
C10_SetColumnMetaRoundTrip ==
  [][\A p \in Procs :
       (/\ pc[p] = "logged"
        /\ pc'[p] = "done"
        /\ call[p].id \in DOMAIN db.field
        /\ Truthy(call[p].rawOp.op)
        /\ Len(call[p].rawOp.op[1]) = 1
        /\ call[p].rawOp.op[1][1].name = OpNameSetColumnMeta)
       => LET id == call[p].id
              c == call[p].rawOp.op[1][1]
              before == JsonParse(db.field[id].columnMeta)
              after == GetFieldSnapshotBulk(db', Coll, <<id>>, <<id>>)[1].data[1].columnMeta
          IN  /\ res'[p].succeed = Some(TRUE)
              /\ c.viewId \in DOMAIN after
              /\ c.metaKey \in DOMAIN after[c.viewId]
              /\ after[c.viewId][c.metaKey] = c.newMetaValue
              /\ \A w \in (DOMAIN before) \ {c.viewId} : w \in DOMAIN after /\ after[w] = before[w]
              /\ c.viewId \in DOMAIN before =>
                   \A k \in (DOMAIN before[c.viewId]) \ {c.metaKey} :
                     after[c.viewId][k] = before[c.viewId][k]]_vars

\* the part of C10 the code meets: when the view has an entry in the stored
\* metadata the commit succeeds and the round trip holds
SetColumnMetaRoundTripOnEntry ==
  [][\A p \in Procs :
       (/\ pc[p] = "logged"
        /\ pc'[p] = "done"
        /\ call[p].id \in DOMAIN db.field
        /\ Truthy(call[p].rawOp.op)
        /\ Len(call[p].rawOp.op[1]) = 1
        /\ call[p].rawOp.op[1][1].name = OpNameSetColumnMeta
        /\ call[p].rawOp.op[1][1].viewId \in DOMAIN JsonParse(db.field[call[p].id].columnMeta))
       => LET id == call[p].id
              c == call[p].rawOp.op[1][1]
              before == JsonParse(db.field[id].columnMeta)
              after == GetFieldSnapshotBulk(db', Coll, <<id>>, <<id>>)[1].data[1].columnMeta
          IN  /\ res'[p].succeed = Some(TRUE)
              /\ after[c.viewId][c.metaKey] = c.newMetaValue
              /\ \A w \in (DOMAIN before) \ {c.viewId} : after[w] = before[w]
              /\ \A k \in (DOMAIN before[c.viewId]) \ {c.metaKey} :
                   after[c.viewId][k] = before[c.viewId][k]]_vars


\* the ids of a batch share one family prefix
SameFamily(ids) == \A i, j \in 1..Len(ids) : Slice3(ids[i]) = Slice3(ids[j])

Distinct(ids) == \A i, j \in 1..Len(ids) : ids[i] = ids[j] => i = j

\* a document id that has no row in any document table
NeverCreated(d, id) ==
  /\ Slice3(id) \in {IdPrefixTable, IdPrefixField, IdPrefixView, IdPrefixRecord}
  /\ id \notin (DOMAIN d.field) \cup (DOMAIN d.record) \cup (DOMAIN d.view) \cup (DOMAIN d.table)

\* C6: for a same-family list of (distinct) ids getSnapshotBulk returns as
\* many snapshots as ids, the i-th with id ids[i], whatever the order the
\* storage returned the rows in.
C6_SnapshotsFollowIds ==
  (/\ ret.fn = "getSnapshotBulk"
   /\ ret.ids # <<>>
   /\ SameFamily(ret.ids)
   /\ Distinct(ret.ids)
   /\ Slice3(ret.ids[1]) \in {IdPrefixField, IdPrefixView, IdPrefixRecord})
  => (/\ ret.cb.err = Undefined
      /\ Len(ret.cb.data[1]) = Len(ret.ids)
      /\ \A i \in 1..Len(ret.ids) : ret.cb.data[1][i].id = ret.ids[i])

\* the part of C6 the code meets: the snapshots returned are in the order of
\* their ids in the request, whatever the order of the rows
SnapshotsInRequestOrder ==
  (/\ ret.fn = "getSnapshotBulk"
   /\ ret.cb.err = Undefined)
  => \A i, j \in 1..Len(ret.cb.data[1]) :
       i < j => IndexOf(ret.ids, ret.cb.data[1][i].id) <= IndexOf(ret.ids, ret.cb.data[1][j].id)

\* C7: every id of a same-family batch that names a document never created
\* gets a snapshot with version 0 and no data, and no error is reported,
\* also when other ids of the batch name existing documents.
C7_PlaceholderForAbsent ==
  (/\ ret.fn = "getSnapshotBulk"
   /\ SameFamily(ret.ids))
  => \A i \in 1..Len(ret.ids) :
       NeverCreated(db, ret.ids[i])
       => (/\ ret.cb.err = Undefined
           /\ \E k \in 1..Len(ret.cb.data[1]) :
                /\ ret.cb.data[1][k].id = ret.ids[i]
                /\ ret.cb.data[1][k].v = 0
                /\ ret.cb.data[1][k].data = Undefined)

\* the part of C7 the code meets: a batch none of whose ids has a row
PlaceholdersWhenNoneExists ==
  (/\ ret.fn = "getSnapshotBulk"
   /\ ret.ids # <<>>
   /\ SameFamily(ret.ids)
   /\ \A i \in 1..Len(ret.ids) : NeverCreated(db, ret.ids[i]))
  => (/\ ret.cb.err = Undefined
      /\ ret.cb.data[1] = [i \in 1..Len(ret.ids) |-> Snapshot(ret.ids[i], 0, Undefined, Undefined)])

\* C8: getSnapshotBulk on a list in which two ids have different family
\* prefixes calls back with an error and no snapshots, wherever the
\* differing id stands in the list.
C8_MixedFamilyRejected ==
  (/\ ret.fn = "getSnapshotBulk"
   /\ ~SameFamily(ret.ids))
  => (Truthy(ret.cb.err) /\ ret.cb.data = Undefined)

\* the part of C8 the code meets: the differing ids are not empty strings
MixedFamilyRejectedNonEmptyIds ==
  (/\ ret.fn = "getSnapshotBulk"
   /\ ~SameFamily(ret.ids)
   /\ \A i \in 1..Len(ret.ids) : ret.ids[i] # EmptyId)
  => (/\ ret.cb.err = Some("get snapshot bulk ids must be same type")
      /\ ret.cb.data = Undefined)

\* C9: skipPoll never returns true for a create or a delete, and returns
\* true for an edit only when the edit carries no descriptors at all.
C9_SkipPollConservative ==
  (ret.fn = "skipPoll" /\ ret.skip)
  => (/\ ret.op.create = <<>>
      /\ ~ret.op.del
      /\ \/ ret.op.op = <<>>
         \/ ret.op.op[1] = <<>>)

\* skipPoll answered true, and it was asked about an edit without op
C9_Witness == ret.fn = "skipPoll" /\ ret.skip /\ ret.op = NoOp

\* C11: once a delete is in the log of a document, no edit of that document
\* is accepted: the log never holds an edit at a version above a delete.
C11_NoEditAfterDelete ==
  \A r1, r2 \in db.ops :
    (/\ r1.collection = r2.collection
     /\ r1.docId = r2.docId
     /\ JsonParse(r1.operation).del
     /\ r2.version > r1.version)
    => ~Truthy(JsonParse(r2.operation).op)

\* C12: the operation log is append-only: a row of the log is in the log,
\* with the same operation, after every step of every call.
C12_LogAppendOnly == [][\A r \in db.ops : r \in db'.ops]_vars

\* three versions logged for the field, the adapter closed, and a getOps
\* answered
C12_Witness ==
  /\ Cardinality(LogRows(db, Fld1)) = 3
  /\ closed
  /\ ret.fn = "getOps"

\* the logged operations of a document with from <= version < to, all from
\* version from onwards when to is null
OpsInRange(d, id, from, to) ==
  {r \in LogRows(d, id) : r.version >= from /\ (to = Undefined \/ r.version < to[1])}

\* C13: getOps returns exactly the logged operations of the document with
\* from <= version < to, and all those with version >= from when to is null.
C13_GetOpsRange ==
  ret.fn = "getOps"
  => (/\ ret.cb.err = Undefined
      /\ \E order \in Orders(OpsInRange(db, ret.id, ret.from, ret.to)) :
           ret.cb.data[1] = [i \in 1..Len(order) |-> JsonParse(order[i].operation)])

\* the part of C13 the code meets: to is a version
GetOpsRangeWithEnd ==
  (ret.fn = "getOps" /\ ret.to # Undefined)
  => (/\ ret.cb.err = Undefined
      /\ \E order \in Orders(OpsInRange(db, ret.id, ret.from, ret.to)) :
           ret.cb.data[1] = [i \in 1..Len(order) |-> JsonParse(order[i].operation)])

\* a getOps with an end that returned two operations
GetOpsRangeWithEndWitness ==
  ret.fn = "getOps" /\ ret.to # Undefined /\ Len(ret.cb.data[1]) = 2

\* JS truthiness of the view id of a query
ViewIdGiven(query) == query.viewId # Undefined /\ query.viewId[1] # EmptyId

\* C14: queryPoll for an Aggregate query calls back with the one-element
\* list [aggregateKey_viewId], with the view id of the query when it has
\* one, and otherwise with the id of the first view found for the table.
C14_AggregateQueryId ==
  (/\ ret.fn = "queryPoll"
   /\ ret.query.type = SnapshotQueryTypeAggregate
   /\ ViewIdGiven(ret.query) \/ IdsOfTable(db.view, Coll) # {})
  => (/\ Len(ret.cb) = 1
      /\ ret.cb[1].err = Undefined
      /\ Len(ret.cb[1].ids) = 1
      /\ ret.cb[1].ids[1] =
           ret.query.aggregateKey \o <<"_">> \o
             (IF ViewIdGiven(ret.query) THEN ret.query.viewId[1] ELSE ret.first[1])
      /\ ~ViewIdGiven(ret.query) => ret.first[1] \in IdsOfTable(db.view, Coll))

\* a RowCount query with the id of a view that is not the stored one
C14_Witness ==
  /\ ret.fn = "queryPoll"
  /\ ret.query.type = SnapshotQueryTypeAggregate
  /\ ViewIdGiven(ret.query)
  /\ Viw1 \in DOMAIN db.view
  /\ ret.query.viewId[1] # Viw1
  /\ ret.cb[1].ids = <<AggregateKeyRowCount \o <<"_">> \o ret.query.viewId[1]>>

\* the synthetic ids aggregateKey_viewId with a key other than RowCount
UnimplementedAggregateIds == {AverageV1, RowsV1}

\* C15: getSnapshotBulk on an aggregate id whose key is Average, or any key
\* other than RowCount, ends in an error callback: no snapshot with a
\* value, no zero-version placeholder.
C15_UnimplementedAggregateFails ==
  (/\ ret.fn = "getSnapshotBulk"
   /\ ret.ids # <<>>
   /\ \A i \in 1..Len(ret.ids) : ret.ids[i] \in UnimplementedAggregateIds)
  => (Truthy(ret.cb.err) /\ ret.cb.data = Undefined)

\* the part of C15 the code meets: the ids that start with the aggregate
\* prefix
UnimplementedKeyUnderAggregatePrefixFails ==
  (/\ ret.fn = "getSnapshotBulk"
   /\ ret.ids # <<>>
   /\ \A i \in 1..Len(ret.ids) :
        ret.ids[i] \in UnimplementedAggregateIds /\ Slice3(ret.ids[i]) = IdPrefixAggregate)
  => (ret.cb.err = Some("not implemented") /\ ret.cb.data = Undefined)

UnimplementedKeyUnderAggregatePrefixWitness ==
  ret.fn = "getSnapshotBulk" /\ ret.ids = <<RowsV1>> /\ Truthy(ret.cb.err)

\* a projection carries the $submit sentinel
CarriesSubmit(projection) ==
  /\ projection # Undefined
  /\ "$submit" \in DOMAIN projection[1]
  /\ projection[1]["$submit"]

\* C16: for record ids, getSnapshotBulk reconstructs the records with no
\* projection when the projection carries $submit, whatever other keys it
\* has, and with the projection as supplied when it does not.
C16_SubmitBypassesProjection ==
  (/\ ret.fn = "getSnapshotBulk"
   /\ ret.ids # <<>>
   /\ \A i \in 1..Len(ret.ids) : Slice3(ret.ids[i]) = IdPrefixRecord
   /\ ret.order # <<>>)
  => (/\ ret.cb.err = Undefined
      /\ ret.cb.data[1] =
           GetRecordSnapshotBulk(db, Coll, ret.ids,
             IF CarriesSubmit(ret.projection) THEN Undefined ELSE ret.projection,
             ret.order))

\* a read with $submit and another key that returned a cell outside the
\* other key
C16_Witness ==
  /\ ret.fn = "getSnapshotBulk"
  /\ ret.ids = <<Rec1>>
  /\ Rec1 \in DOMAIN db.record
  /\ CarriesSubmit(ret.projection)
  /\ "fld1" \notin DOMAIN ret.projection[1]
  /\ ret.cb.err = Undefined
  /\ "fld1" \in DOMAIN ret.cb.data[1][1].data[1].record.fields

\* an id whose prefix is none of the five family prefixes
UnknownFamily(id) ==
  Slice3(id) \notin {IdPrefixTable, IdPrefixRecord, IdPrefixField, IdPrefixView, IdPrefixAggregate}

\* C17: a commit of a create, and a getSnapshotBulk read, for an id of no
\* known family end in an error, never in a success or a placeholder.
C17_UnknownFamilyFails ==
  /\ \A p \in Procs :
       (/\ pc[p] = "done"
        /\ Truthy(call[p].rawOp.create)
        /\ UnknownFamily(call[p].id))
       => (Truthy(res[p].err) /\ res[p].succeed = Undefined)
  /\ (/\ ret.fn = "getSnapshotBulk"
      /\ ret.ids # <<>>
      /\ \A i \in 1..Len(ret.ids) : UnknownFamily(ret.ids[i]))
     => (Truthy(ret.cb.err) /\ ret.cb.data = Undefined)

\* C18: a commit of a create for an id that has a row in a document table
\* ends with an error, not with succeeded, and leaves the stored documents
\* as they were.
C18_CreateOfExistingRejected ==
  [][\A p \in Procs :
       (/\ pc[p] # "done"
        /\ pc'[p] = "done"
        /\ Truthy(call'[p].rawOp.create)
        /\ call'[p].id \in DOMAIN VersionedRows(db))
       => (/\ Truthy(res'[p].err)
           /\ res'[p].succeed = Undefined
           /\ db' = db)]_vars

\* a create at the next version of a field that exists, refused by the
\* insert of the row
C18_Witness ==
  \E p \in Procs :
    /\ pc[p] = "done"
    /\ Truthy(call[p].rawOp.create)
    /\ call[p].v = 2
    /\ res[p].err = Some("unique constraint")
    /\ call[p].id \in DOMAIN db.field
    /\ db.field[call[p].id].version = 1

\* the positions of the contexts of an op, sorted by the first position of
\* their kind and then by their own position
FirstOfKind(contexts, i) ==
  CHOOSE k \in 1..Len(contexts) :
    /\ contexts[k].name = contexts[i].name
    /\ \A j \in 1..(k - 1) : contexts[j].name # contexts[i].name

ByKindThenPosition(contexts) ==
  CHOOSE o \in Orders(1..Len(contexts)) :
    \A a, b \in 1..Len(contexts) :
      a < b => \/ FirstOfKind(contexts, o[a]) < FirstOfKind(contexts, o[b])
               \/ /\ contexts[o[a]].name = contexts[o[b]].name
                  /\ o[a] < o[b]

\* the document tables after the contexts are applied one at a time in the
\* order given
RECURSIVE AppliedOneByOne(_, _, _, _, _)
AppliedOneByOne(d, version, docId, contexts, o) ==
  IF o = <<>> THEN [d EXCEPT !.ops = {}]
  ELSE AppliedOneByOne(
         ApplyGroup(d, version, docId, contexts[Head(o)].name, <<contexts[Head(o)]>>).db,
         version, docId, contexts, Tail(o))

\* C19: the descriptors of a committed edit are applied grouped by kind,
\* all of one kind before any of the next, and those of one kind in their
\* order in the operation.
C19_GroupedByKind ==
  [][\A p \in Procs :
       (/\ pc[p] = "logged"
        /\ pc'[p] = "done"
        /\ res'[p].succeed = Some(TRUE)
        /\ Truthy(call[p].rawOp.op))
       => [db' EXCEPT !.ops = {}] =
            AppliedOneByOne(db, call[p].v, call[p].id, call[p].rawOp.op[1],
                            ByKindThenPosition(call[p].rawOp.op[1]))]_vars

\* the edit SetColumnMeta 1, AddColumnMeta 2, SetColumnMeta 3 on one leaf
\* committed: the leaf holds 2
C19_Witness ==
  /\ pc[1] = "done"
  /\ res[1].succeed = Some(TRUE)
  /\ call[1].rawOp = EditGrouped
  /\ JsonParse(db.field[Fld1].columnMeta)["v1"]["width"] = 2

\* the positions of the SetColumnMeta contexts of an op on one leaf
SetsOfLeaf(contexts, viewId, metaKey) ==
  {i \in 1..Len(contexts) : /\ contexts[i].name = OpNameSetColumnMeta
                            /\ contexts[i].viewId = viewId
                            /\ contexts[i].metaKey = metaKey}

\* an AddColumnMeta context of the op writes the leaf
AddsToLeaf(contexts, viewId, metaKey) ==
  \E i \in 1..Len(contexts) : /\ contexts[i].name = OpNameAddColumnMeta
                              /\ contexts[i].viewId = viewId
                              /\ metaKey \in DOMAIN contexts[i].newMetaValue

\* the leaf holds the value of the last SetColumnMeta context on it
LastSetStored(d, id, contexts, S) ==
  LET last == CHOOSE i \in S : \A j \in S : j <= i
  IN  JsonParse(d.field[id].columnMeta)[contexts[last].viewId][contexts[last].metaKey]
        = contexts[last].newMetaValue

\* C20 as stated: after a committed edit with two or more SetColumnMeta
\* contexts on one leaf, the leaf holds the newMetaValue of the last of them.
C20_LastSetColumnMetaWins ==
  \A p \in Procs :
    (/\ pc[p] = "done"
     /\ res[p].succeed = Some(TRUE)
     /\ Truthy(call[p].rawOp.op))
    => \A viewId \in {"v1", "v2", "v3"}, metaKey \in {"width", "hidden"} :
         LET S == SetsOfLeaf(call[p].rawOp.op[1], viewId, metaKey)
         IN  Cardinality(S) >= 2 => LastSetStored(db, call[p].id, call[p].rawOp.op[1], S)

\* C20, amended: the same when no AddColumnMeta context of the operation
\* writes that leaf.
C20_LastSetColumnMetaWinsAmongSets ==
  \A p \in Procs :
    (/\ pc[p] = "done"
     /\ res[p].succeed = Some(TRUE)
     /\ Truthy(call[p].rawOp.op))
    => \A viewId \in {"v1", "v2", "v3"}, metaKey \in {"width", "hidden"} :
         LET S == SetsOfLeaf(call[p].rawOp.op[1], viewId, metaKey)
         IN  (Cardinality(S) >= 2 /\ ~AddsToLeaf(call[p].rawOp.op[1], viewId, metaKey))
             => LastSetStored(db, call[p].id, call[p].rawOp.op[1], S)

\* the edit SetColumnMeta 1, SetFieldName, SetColumnMeta 2 on one leaf
\* committed: the leaf holds 2
C20_Witness ==
  /\ pc[1] = "done"
  /\ res[1].succeed = Some(TRUE)
  /\ call[1].rawOp = EditTwice
  /\ JsonParse(db.field[Fld1].columnMeta)["v1"]["width"] = 2

\* a commit step that ends an edit of one AddColumnMeta context on a field
\* that has a row
EndsSingleAdd(p) ==
  /\ pc[p] = "logged"
  /\ pc'[p] = "done"
  /\ call[p].id \in DOMAIN db.field
  /\ Truthy(call[p].rawOp.op)
  /\ Len(call[p].rawOp.op[1]) = 1
  /\ call[p].rawOp.op[1][1].name = OpNameAddColumnMeta

\* C21: AddColumnMeta{viewId, newMetaValue} applied to a field sets
\* columnMeta[viewId][k] = v for every pair of newMetaValue, keeps the other
\* keys of that view and the entries of the other views, and sets the
\* field's version to the committed version.
C21_AddColumnMetaMerges ==
  [][\A p \in Procs :
       EndsSingleAdd(p)
       => LET id == call[p].id
              c == call[p].rawOp.op[1][1]
              before == JsonParse(db.field[id].columnMeta)
              after == JsonParse(db'.field[id].columnMeta)
          IN  /\ res'[p].succeed = Some(TRUE)
              /\ c.viewId \in DOMAIN after
              /\ \A k \in DOMAIN c.newMetaValue :
                   k \in DOMAIN after[c.viewId] /\ after[c.viewId][k] = c.newMetaValue[k]
              /\ c.viewId \in DOMAIN before =>
                   \A k \in (DOMAIN before[c.viewId]) \ (DOMAIN c.newMetaValue) :
                     k \in DOMAIN after[c.viewId] /\ after[c.viewId][k] = before[c.viewId][k]
              /\ \A w \in (DOMAIN before) \ {c.viewId} : w \in DOMAIN after /\ after[w] = before[w]
              /\ db'.field[id].version = call[p].v]_vars

\* the part of C21 the code meets: the view has an entry in the stored
\* metadata
AddColumnMetaMergesOnEntry ==
  [][\A p \in Procs :
       (/\ EndsSingleAdd(p)
        /\ call[p].rawOp.op[1][1].viewId \in DOMAIN JsonParse(db.field[call[p].id].columnMeta))
       => LET id == call[p].id
              c == call[p].rawOp.op[1][1]
              before == JsonParse(db.field[id].columnMeta)
              after == JsonParse(db'.field[id].columnMeta)
          IN  /\ res'[p].succeed = Some(TRUE)
              /\ \A k \in DOMAIN c.newMetaValue : after[c.viewId][k] = c.newMetaValue[k]
              /\ \A k \in (DOMAIN before[c.viewId]) \ (DOMAIN c.newMetaValue) :
                   after[c.viewId][k] = before[c.viewId][k]
              /\ \A w \in (DOMAIN before) \ {c.viewId} : after[w] = before[w]
              /\ db'.field[id].version = call[p].v]_vars

AddColumnMetaMergesOnEntryWitness ==
  /\ pc[1] = "done"
  /\ res[1].succeed = Some(TRUE)
  /\ call[1].rawOp = EditAdd
  /\ JsonParse(db.field[Fld1].columnMeta)["v1"] = ("width" :> 7 @@ "color" :> 1 @@ "hidden" :> 0)

\* the kinds of descriptor that have an applier
AppliedKinds ==
  {OpNameSetRecordOrder, OpNameSetRecord, OpNameSetColumnMeta, OpNameAddColumnMeta,
   OpNameSetFieldName}

HasUnknownKind(rawOp) ==
  /\ Truthy(rawOp.op)
  /\ \E i \in 1..Len(rawOp.op[1]) : rawOp.op[1][i].name \notin AppliedKinds

\* C22: a commit of an edit with a descriptor of a kind that has no applier
\* calls back with an error, never with succeeded, and none of the mutations
\* of the other descriptors of the operation stays applied.
C22_UnknownKindRejected ==
  [][\A p \in Procs :
       (/\ pc[p] # "done"
        /\ pc'[p] = "done"
        /\ HasUnknownKind(call'[p].rawOp))
       => (/\ Truthy(res'[p].err)
           /\ res'[p].succeed = Undefined
           /\ db' = db)]_vars

\* the rename of the edit was applied before the unknown kind threw: the
\* field keeps its name and the log has no row of that version
C22_Witness ==
  /\ pc[1] = "done"
  /\ call[1].rawOp = EditNameThenOther
  /\ res[1].err = Some("not implemented")
  /\ Fld1 \in DOMAIN db.field
  /\ db.field[Fld1].name = "A"
  /\ ~OpsKeyTaken(db.ops, Coll, Fld1, call[1].v)

\* C23: every queryPoll call invokes its callback exactly once, with an id
\* list or an error, whatever the type of the query, and so does every
\* query call.
C23_CallbackExactlyOnce ==
  ret.fn \in {"queryPoll", "query"} => Len(ret.cb) = 1

\* the part of C23 the code meets: the four query types
CallbackOnceForKnownTypes ==
  (/\ ret.fn \in {"queryPoll", "query"}
   /\ ret.query.type \in {SnapshotQueryTypeField, SnapshotQueryTypeRecord,
                           SnapshotQueryTypeView, SnapshotQueryTypeAggregate})
  => Len(ret.cb) = 1

\* an aggregate query with no view id on a table without a view: the
\* callback of query got the error of the lookup
CallbackOnceForKnownTypesWitness ==
  /\ ret.fn = "query"
  /\ ret.query.type = SnapshotQueryTypeAggregate
  /\ Len(ret.cb) = 1
  /\ ret.cb[1].err = Some("not found")

\* C24: when queryPoll resolves a query to an empty id list, query calls
\* back with an empty snapshot list and no error; getSnapshotBulk called
\* with an empty list of ids returns an empty list and no error.
C24_EmptyIdsGiveEmptyList ==
  /\ (/\ ret.fn = "query"
      /\ Len(ret.polled) = 1
      /\ ret.polled[1].err = Undefined
      /\ ret.polled[1].ids = <<>>)
     => (/\ Len(ret.cb) = 1
         /\ ret.cb[1].err = Undefined
         /\ ret.cb[1].data = Some(<<>>))
  /\ (ret.fn = "getSnapshotBulk" /\ ret.ids = <<>>)
     => (ret.cb.err = Undefined /\ ret.cb.data = Some(<<>>))


====
